---- MODULE Spec2Model ----
(***************************************************************************)
(* Model of the incremental visitor counter, scripts/count_visitors.py.    *)
(*                                                                         *)
(* The persisted JSON document is a function from key names to values, so  *)
(* that an absent key (dict.get with a default) is an absent key here.     *)
(* A datetime.date is the day number within 2026; an ISO date string is    *)
(* the triple <<year, month, day>>; isoformat and fromisoformat convert    *)
(* between the two.                                                        *)
(***************************************************************************)
EXTENDS Integers, Sequences, FiniteSets, TLC

VARIABLES file_exists, file, today, runs, runs_today, fetches, today_visitors_day

vars == <<file_exists, file, today, runs, runs_today, fetches, today_visitors_day>>

(* ---- bounds ---- *)
MaxDay == 4
MaxRuns == 3
MaxVisitors == 2

(* ---- program constants ---- *)
INITIAL_CUMULATIVE == 23869
DEPLOY_DATE == <<2026, 2, 8>>
FETCH_ERROR == -1

(* ---- dates ---- *)
DaysInMonth == <<31, 28, 31, 30, 31, 30, 31, 31, 30, 31, 30, 31>>

RECURSIVE DaysBeforeMonth(_)
DaysBeforeMonth(m) == IF m <= 1 THEN 0 ELSE DaysBeforeMonth(m - 1) + DaysInMonth[m - 1]

DaysBeforeMonthTable == [m \in 1..12 |-> DaysBeforeMonth(m)]

fromisoformat(s) == DaysBeforeMonthTable[s[2]] + s[3]

isoformat(d) ==
    LET m == CHOOSE k \in 1..12 :
                 DaysBeforeMonthTable[k] < d /\ d <= DaysBeforeMonthTable[k] + DaysInMonth[k]
    IN  <<2026, m, d - DaysBeforeMonthTable[m]>>

(* ---- dictionaries ---- *)
EmptyDict == [k \in {} |-> 0]

Has(dict, key) == key \in DOMAIN dict

Get(dict, key, default) == IF key \in DOMAIN dict THEN dict[key] ELSE default

Max(a, b) == IF a >= b THEN a ELSE b

(* ---- the analytics service ---- *)
Visitors == 0..MaxVisitors

Results == Visitors \cup {FETCH_ERROR}

fetch_sa_visitors_for_date(resp, day) == resp[day]

(* ---- persistence ---- *)
load_data == IF file_exists THEN file ELSE EmptyDict

(* ---- cmd_update ---- *)
initial_cumulative_baseline_only(prev) == INITIAL_CUMULATIVE

initial_cumulative(prev) == Max(INITIAL_CUMULATIVE, Get(prev, "count", 0))

start_cumulative_from_baseline(prev) == INITIAL_CUMULATIVE

start_cumulative(prev) ==
    IF ~Has(prev, "last_counted_date") THEN initial_cumulative(prev)
    ELSE Get(prev, "cumulative", 0)

start_last_counted(prev, today_str) ==
    IF ~Has(prev, "last_counted_date") THEN today_str
    ELSE prev["last_counted_date"]

(* The loop with `continue` in place of `break`: a failed day is skipped. *)
RECURSIVE finalize_days_skipping(_, _, _, _)
finalize_days_skipping(d, tday, resp, acc) ==
    IF ~(d < tday) THEN acc
    ELSE LET day_str == isoformat(d)
             visitors == fetch_sa_visitors_for_date(resp, day_str)
             asked == Append(acc.fetched, [day |-> day_str, visitors |-> visitors])
         IN  IF visitors < 0
             THEN finalize_days_skipping(d + 1, tday, resp,
                      [acc EXCEPT !.fetched = asked, !.broke = TRUE])
             ELSE finalize_days_skipping(d + 1, tday, resp,
                      [acc EXCEPT !.cumulative = @ + visitors,
                                  !.daily_history = (day_str :> visitors) @@ @,
                                  !.finalized_days = @ + 1,
                                  !.fetched = asked])

(* The loop with `d <= today` in place of `d < today`: today is finalized. *)
RECURSIVE finalize_days_through_today(_, _, _, _)
finalize_days_through_today(d, tday, resp, acc) ==
    IF ~(d <= tday) THEN acc
    ELSE LET day_str == isoformat(d)
             visitors == fetch_sa_visitors_for_date(resp, day_str)
             asked == Append(acc.fetched, [day |-> day_str, visitors |-> visitors])
         IN  IF visitors < 0
             THEN [acc EXCEPT !.fetched = asked, !.broke = TRUE]
             ELSE finalize_days_through_today(d + 1, tday, resp,
                      [acc EXCEPT !.cumulative = @ + visitors,
                                  !.daily_history = (day_str :> visitors) @@ @,
                                  !.finalized_days = @ + 1,
                                  !.fetched = asked])

(* The while loop of cmd_update from day d on.  acc carries the locals     *)
(* cumulative, daily_history and finalized_days, the requests made so far  *)
(* and whether the loop left through break.                                *)
RECURSIVE finalize_days(_, _, _, _)
finalize_days(d, tday, resp, acc) ==
    IF ~(d < tday) THEN acc
    ELSE LET day_str == isoformat(d)
             visitors == fetch_sa_visitors_for_date(resp, day_str)
             asked == Append(acc.fetched, [day |-> day_str, visitors |-> visitors])
         IN  IF visitors < 0
             THEN [acc EXCEPT !.fetched = asked, !.broke = TRUE]
             ELSE finalize_days(d + 1, tday, resp,
                      [acc EXCEPT !.cumulative = @ + visitors,
                                  !.daily_history = (day_str :> visitors) @@ @,
                                  !.finalized_days = @ + 1,
                                  !.fetched = asked])

finalize_completed(prev, tday) ==
    LET last_date == fromisoformat(start_last_counted(prev, isoformat(tday)))
    IN  [last_date |-> last_date, entered |-> last_date < tday]

advance_last_counted_never(last_counted, entered, broke, tday) == last_counted

advance_last_counted(last_counted, entered, broke, tday) ==
    IF entered /\ ~broke THEN isoformat(tday - 1) ELSE last_counted

today_or_zero(prev, fetched_today) ==
    IF fetched_today < 0 THEN 0 ELSE fetched_today

today_or_previous(prev, fetched_today) ==
    IF fetched_today < 0 THEN Get(prev, "today_visitors", 0) ELSE fetched_today

cmd_update(domain, prev, tday, resp, now) ==
    LET today_str == isoformat(tday)
        gate == finalize_completed(prev, tday)
        acc0 == [cumulative |-> start_cumulative(prev),
                 daily_history |-> Get(prev, "daily_history", EmptyDict),
                 finalized_days |-> 0,
                 fetched |-> <<>>,
                 broke |-> FALSE]
        acc == IF gate.entered
               THEN finalize_days(gate.last_date + 1, tday, resp, acc0)
               ELSE acc0
        last_counted == advance_last_counted(start_last_counted(prev, today_str),
                                             gate.entered, acc.broke, tday)
        fetched_today == fetch_sa_visitors_for_date(resp, today_str)
        today_visitors == today_or_previous(prev, fetched_today)
        total == acc.cumulative + today_visitors
    IN  [data |-> [count |-> total,
                   cumulative |-> acc.cumulative,
                   today_visitors |-> today_visitors,
                   last_counted_date |-> last_counted,
                   domain |-> domain,
                   last_updated |-> <<today_str, now>>,
                   daily_history |-> acc.daily_history],
         fetched |-> Append(acc.fetched,
                            [day |-> today_str, visitors |-> fetched_today])]

(* The days a run can ask the service about: the open gap and today. *)
FetchDays(prev, tday) ==
    LET last_date == fromisoformat(start_last_counted(prev, isoformat(tday)))
    IN  {isoformat(d) : d \in (last_date + 1)..tday} \cup {isoformat(tday)}

Domains == {"example.org"}

UpdateWith(domain, resp) ==
    LET prev == load_data
        out == cmd_update(domain, prev, today, resp, runs + 1)
        last == out.fetched[Len(out.fetched)]
    IN  /\ runs < MaxRuns
        /\ file_exists' = TRUE
        /\ file' = out.data
        /\ runs' = runs + 1
        /\ runs_today' = runs_today + 1
        /\ fetches' = out.fetched
        /\ today_visitors_day' =
               IF last.visitors >= 0 THEN last.day
               ELSE IF Has(prev, "today_visitors") THEN today_visitors_day
               ELSE <<>>
        /\ UNCHANGED today

Update ==
    \E domain \in Domains :
        \E resp \in [FetchDays(load_data, today) -> Results] :
            UpdateWith(domain, resp)

(* The service of the worked scenario: 2026-02-08..10 have 10, 15 and 20   *)
(* visitors, 2026-02-11 has 5, any other day none; a request may fail.     *)
ScenarioVisitors(day) ==
    CASE day = <<2026, 2, 8>> -> 10
      [] day = <<2026, 2, 9>> -> 15
      [] day = <<2026, 2, 10>> -> 20
      [] day = <<2026, 2, 11>> -> 5
      [] OTHER -> 0

ScenarioResponses(days) ==
    {[d \in days |-> IF d \in failing THEN FETCH_ERROR ELSE ScenarioVisitors(d)] :
        failing \in SUBSET days}

UpdateScenario ==
    \E domain \in Domains :
        \E resp \in ScenarioResponses(FetchDays(load_data, today)) :
            UpdateWith(domain, resp)

(* A calendar day passes. *)
Tick ==
    /\ today < fromisoformat(DEPLOY_DATE) + MaxDay
    /\ today' = today + 1
    /\ runs_today' = 0
    /\ UNCHANGED <<file_exists, file, runs, fetches, today_visitors_day>>

(* ---- initial states ---- *)
LegacyCounts == {0, 50000}

LegacyFiles == {EmptyDict} \cup {[count |-> c] : c \in LegacyCounts}

InitFresh ==
    /\ file_exists = FALSE
    /\ file = EmptyDict
    /\ today = fromisoformat(DEPLOY_DATE)
    /\ runs = 0
    /\ runs_today = 0
    /\ fetches = <<>>
    /\ today_visitors_day = <<>>

Init ==
    /\ \/ file_exists = FALSE /\ file = EmptyDict
       \/ file_exists = TRUE /\ file \in LegacyFiles
    /\ today = fromisoformat(DEPLOY_DATE)
    /\ runs = 0
    /\ runs_today = 0
    /\ fetches = <<>>
    /\ today_visitors_day = <<>>

Next == Tick \/ Update

Spec == Init /\ [][Next]_vars

SpecFresh == InitFresh /\ [][Next]_vars

NextScenario == Tick \/ UpdateScenario

SpecScenario == InitFresh /\ [][NextScenario]_vars

(* ---- vocabulary of the properties ---- *)
RECURSIVE SumHistory(_)
SumHistory(h) ==
    IF DOMAIN h = {} THEN 0
    ELSE LET d == CHOOSE x \in DOMAIN h : TRUE
         IN  h[d] + SumHistory([x \in DOMAIN h \ {d} |-> h[x]])

(* The requests of the gap-day loop of the last run, and its today request. *)
GapFetches(log) == SubSeq(log, 1, Len(log) - 1)

TodayFetch(log) == log[Len(log)]

RECURSIVE SumFinalized(_)
SumFinalized(gap) ==
    IF gap = <<>> THEN 0
    ELSE (IF Head(gap).visitors < 0 THEN 0 ELSE Head(gap).visitors)
         + SumFinalized(Tail(gap))

AllSucceeded(gap) == \A i \in 1..Len(gap) : gap[i].visitors >= 0

History(dict) == Get(dict, "daily_history", EmptyDict)

PersistedByUpdate == file_exists /\ Has(file, "last_updated")

Ran == runs' = runs + 1

(* C1: in every state persisted by update, starting from no persisted      *)
(* state, cumulative is the baseline plus the sum of the values stored in  *)
(* daily_history.                                                          *)
C1_CumulativeIsBaselinePlusHistory ==
    PersistedByUpdate =>
        file["cumulative"] = INITIAL_CUMULATIVE + SumHistory(file["daily_history"])

(* C2: once a date is in the persisted daily_history, no later run fetches *)
(* it again as a gap day, its stored value never changes, and cumulative   *)
(* grows only by the counts of the dates the run adds to daily_history.    *)
C2_FinalizedNeverRefetched ==
    [][(Ran /\ PersistedByUpdate) =>
          /\ \A d \in DOMAIN file["daily_history"] :
                /\ \A i \in 1..Len(GapFetches(fetches')) :
                       GapFetches(fetches')[i].day # d
                /\ d \in DOMAIN file'["daily_history"]
                /\ file'["daily_history"][d] = file["daily_history"][d]
          /\ file'["cumulative"] - file["cumulative"]
                 = SumHistory(file'["daily_history"]) - SumHistory(file["daily_history"])
      ]_vars

(* C3 as stated: an update run on a calendar day on which update already   *)
(* completed leaves cumulative and daily_history as they were; only        *)
(* today_visitors, count and last_updated may differ.                      *)
C3_SameDayRerunChangesNothing ==
    [][(Ran /\ PersistedByUpdate /\ runs_today >= 1) =>
          /\ file'["cumulative"] = file["cumulative"]
          /\ file'["daily_history"] = file["daily_history"]
          /\ file'["last_counted_date"] = file["last_counted_date"]
          /\ file'["domain"] = file["domain"]
      ]_vars

(* C3 amended: the same, for a rerun after a run that left no gap day open *)
(* (its last_counted_date is yesterday or today).                          *)
C3_SameDayRerunNoOpenGap ==
    [][(/\ Ran /\ PersistedByUpdate /\ runs_today >= 1
        /\ fromisoformat(file["last_counted_date"]) >= today - 1) =>
          /\ file'["cumulative"] = file["cumulative"]
          /\ file'["daily_history"] = file["daily_history"]
          /\ file'["last_counted_date"] = file["last_counted_date"]
          /\ file'["domain"] = file["domain"]
      ]_vars

C3_Witness ==
    /\ PersistedByUpdate /\ runs_today >= 2
    /\ fromisoformat(file["last_counted_date"]) = today - 1
    /\ DOMAIN file["daily_history"] # {}
    /\ file["today_visitors"] > 0

(* C4: within one run the gap days are fetched in ascending date order; a  *)
(* failed gap fetch is the last gap fetch of the run, no day from the      *)
(* failed one on is finalized, and last_counted_date is not advanced past  *)
(* the last gap day finalized before the failure.                          *)
C4_FailureStopsFinalization ==
    [][Ran =>
          LET gap == GapFetches(fetches')
          IN  /\ \A i \in 1..(Len(gap) - 1) :
                     fromisoformat(gap[i].day) < fromisoformat(gap[i + 1].day)
              /\ \A i \in 1..Len(gap) :
                     gap[i].visitors < 0 =>
                         /\ i = Len(gap)
                         /\ \A d \in DOMAIN file'["daily_history"] \ DOMAIN History(load_data) :
                                fromisoformat(d) < fromisoformat(gap[i].day)
                         /\ IF i > 1
                            THEN fromisoformat(file'["last_counted_date"])
                                     <= fromisoformat(gap[i - 1].day)
                            ELSE /\ Has(load_data, "last_counted_date")
                                 /\ file'["last_counted_date"] = file["last_counted_date"]
      ]_vars

C4_Witness ==
    /\ PersistedByUpdate
    /\ Len(fetches) >= 3
    /\ fetches[1].visitors > 0
    /\ fetches[Len(fetches) - 1].visitors < 0
    /\ fromisoformat(fetches[Len(fetches) - 1].day) < today - 1

(* C5: a run whose N >= 1 gap fetches all succeed with v1..vN persists the *)
(* cumulative it started from plus v1 + ... + vN (from the baseline:       *)
(* baseline + v1 + ... + vN) and the date of the Nth finalized day as      *)
(* last_counted_date.                                                      *)
C5_SuccessfulFinalizations ==
    [][(/\ Ran /\ PersistedByUpdate
        /\ Len(GapFetches(fetches')) >= 1
        /\ AllSucceeded(GapFetches(fetches'))) =>
          LET gap == GapFetches(fetches')
          IN  /\ file'["cumulative"] = file["cumulative"] + SumFinalized(gap)
              /\ file["cumulative"] = INITIAL_CUMULATIVE =>
                     file'["cumulative"] = INITIAL_CUMULATIVE + SumFinalized(gap)
              /\ file'["last_counted_date"] = gap[Len(gap)].day
              /\ \A i \in 1..Len(gap) :
                     file'["daily_history"][gap[i].day] = gap[i].visitors
      ]_vars

C5_Witness ==
    /\ PersistedByUpdate
    /\ Len(GapFetches(fetches)) >= 2
    /\ AllSucceeded(GapFetches(fetches))
    /\ SumFinalized(GapFetches(fetches)) > 0
    /\ file["cumulative"] = INITIAL_CUMULATIVE + SumFinalized(GapFetches(fetches))
    /\ file["last_counted_date"] = isoformat(today - 1)

(* C6: with no persisted state file, an update run on 2026-02-11 for which *)
(* 2026-02-08, 2026-02-09 and 2026-02-10 return 10, 15 and 20 and today    *)
(* returns 5 persists cumulative 23914, today_visitors 5, count 23919 and  *)
(* last_counted_date 2026-02-10.                                           *)
C6_FirstRunScenario ==
    [][(/\ Ran /\ ~file_exists
        /\ today = fromisoformat(<<2026, 2, 11>>)
        /\ AllSucceeded(fetches')) =>
          /\ file'["cumulative"] = 23914
          /\ file'["today_visitors"] = 5
          /\ file'["count"] = 23919
          /\ file'["last_counted_date"] = <<2026, 2, 10>>
      ]_vars

(* C7: the first run over a prior state without last_counted_date and with *)
(* displayed count c (0 when absent) persists cumulative = max(23869, c)   *)
(* plus the days finalized in that run, so cumulative >= c and count >= c. *)
C7_MigrationNeverRegresses ==
    [][(Ran /\ ~Has(load_data, "last_counted_date")) =>
          LET c == Get(load_data, "count", 0)
          IN  /\ file'["cumulative"]
                     = Max(INITIAL_CUMULATIVE, c) + SumFinalized(GapFetches(fetches'))
              /\ file'["cumulative"] >= c
              /\ file'["count"] >= c
      ]_vars

C7_Witness ==
    /\ PersistedByUpdate
    /\ runs = 1
    /\ file["cumulative"] = 50000
    /\ file["count"] > 50000

(* C8: in every state persisted by update, today_visitors is the live      *)
(* count of the day of that run and never a value obtained for an earlier  *)
(* day, every day in daily_history is earlier than the day of the run, and *)
(* no day is counted both in cumulative and in today_visitors.             *)
C8_TodayVisitorsIsCurrentDayOnly ==
    PersistedByUpdate =>
        /\ today_visitors_day \in {<<>>, file["last_updated"][1]}
        /\ \A d \in DOMAIN file["daily_history"] :
               fromisoformat(d) < fromisoformat(file["last_updated"][1])
        /\ today_visitors_day \notin DOMAIN file["daily_history"]

(* C9: when the fetch of today's count fails the run still writes: every   *)
(* gap day finalized in the run is in cumulative and daily_history,        *)
(* today_visitors is that of the previously persisted state (0 if none),   *)
(* and count = cumulative + today_visitors.                                *)
C9_TodayFailureKeepsProgress ==
    [][(Ran /\ TodayFetch(fetches').visitors < 0) =>
          LET prev == load_data
              gap == GapFetches(fetches')
              before == IF Has(prev, "last_counted_date")
                        THEN Get(prev, "cumulative", 0)
                        ELSE Max(INITIAL_CUMULATIVE, Get(prev, "count", 0))
          IN  /\ file_exists'
              /\ file'["last_updated"][2] = runs'
              /\ file'["cumulative"] = before + SumFinalized(gap)
              /\ \A i \in 1..Len(gap) :
                     gap[i].visitors >= 0 =>
                         /\ gap[i].day \in DOMAIN file'["daily_history"]
                         /\ file'["daily_history"][gap[i].day] = gap[i].visitors
              /\ file'["today_visitors"] = Get(prev, "today_visitors", 0)
              /\ file'["today_visitors"] >= 0
              /\ file'["count"] = file'["cumulative"] + file'["today_visitors"]
      ]_vars

C9_Witness ==
    /\ PersistedByUpdate
    /\ TodayFetch(fetches).visitors < 0
    /\ Len(fetches) >= 2
    /\ fetches[1].visitors > 0
    /\ file["today_visitors"] > 0

(* C10: in every state persisted by update, last_counted_date is a date    *)
(* recorded in daily_history and no later date is in daily_history.        *)
C10_LastCountedIsLastFinalized ==
    PersistedByUpdate =>
        /\ file["last_counted_date"] \in DOMAIN file["daily_history"]
        /\ \A d \in DOMAIN file["daily_history"] :
               fromisoformat(d) <= fromisoformat(file["last_counted_date"])

(* C11: across update runs on non-decreasing calendar days, with any mix   *)
(* of successful and failed fetches, the persisted cumulative never        *)
(* decreases from one run to the next.                                     *)
C11_CumulativeNeverDecreases ==
    [][(Ran /\ file_exists /\ Has(file, "cumulative")) =>
          file'["cumulative"] >= file["cumulative"]
      ]_vars

C11_Witness ==
    /\ PersistedByUpdate
    /\ runs >= 2
    /\ file["cumulative"] > INITIAL_CUMULATIVE
    /\ \E i \in 1..Len(fetches) : fetches[i].visitors < 0
    /\ \E i \in 1..Len(GapFetches(fetches)) : fetches[i].visitors > 0

(* C12: a gap day whose fetch failed in a run is still after               *)
(* last_counted_date in the state that run persisted, and the next update  *)
(* run fetches it again.                                                   *)
C12_FailedGapDayRetriedNextRun ==
    [][(/\ Ran /\ PersistedByUpdate
        /\ Len(GapFetches(fetches)) >= 1
        /\ GapFetches(fetches)[Len(GapFetches(fetches))].visitors < 0) =>
          LET failed == GapFetches(fetches)[Len(GapFetches(fetches))].day
          IN  /\ fromisoformat(file["last_counted_date"]) < fromisoformat(failed)
              /\ \E i \in 1..Len(GapFetches(fetches')) :
                     GapFetches(fetches')[i].day = failed
      ]_vars

====
